---------------------------- MODULE Spec2Model ----------------------------
(***************************************************************************)
(* A model of rox: lexer (lexer.rs), recursive-descent parser (parser.rs), *)
(* scoped environment (environment.rs), values (value.rs) and the          *)
(* tree-walking interpreter (interpreter.rs).                              *)
(*                                                                         *)
(* Source text is a sequence of one-character strings.  Every component    *)
(* keeps its state in one record variable whose fields are the fields of   *)
(* the Rust struct, plus the position of the loop that drives it.          *)
(*                                                                         *)
(*   SpecLex     Lexer::tokenize_with_context, one loop iteration a step   *)
(*   SpecParse   Parser::parse, one loop iteration a step                  *)
(*   SpecEnv     the methods of Environment, called one at a time          *)
(*   Spec        Interpreter::interpret, one top-level statement a step    *)
(***************************************************************************)
EXTENDS Integers, Sequences, FiniteSets, TLC

VARIABLES
    overflow_checks,  \* the build: TRUE = debug (overflow panics), FALSE = release (wraps)
    lexer,            \* Lexer { source, start_pos, cursor } + the tokens vector + loop position
    parser,           \* Parser { tokens, source, cursor, errors } + statements + loop position
    environment,      \* Environment { environments } + the last call and its result
    interp            \* Interpreter { envs } + the program, the statement index, stdout

vars == <<overflow_checks, lexer, parser, environment, interp>>

(***************************************************************************)
(* Bounds of the model.                                                    *)
(***************************************************************************)
MaxSourceLen == 4     \* SpecLex: length of the character sequences tokenized
MaxPieces == 3        \* SpecParse: number of lexemes in a free-form source
MaxStmts == 3         \* Spec: number of top-level statements of a program
MaxScopes == 3        \* SpecEnv: depth of the scope stack
MaxCalls == 6         \* SpecEnv: number of Environment calls in a run

None == "None"

\* the value of a component's variable in the specifications that do not run it
LexerIdle == [source |-> <<>>, start_pos |-> 0, cursor |-> 0, tokens |-> <<>>, pc |-> "idle"]

ParserIdle == [p |-> [tokens |-> <<>>, source |-> <<>>, cursor |-> 0, errors |-> <<>>,
                      panicked |-> FALSE],
               statements |-> <<>>, input |-> [kind |-> "none"], pc |-> "idle"]

EnvironmentIdle == [environments |-> <<>>, pc |-> "idle"]

InterpIdle == [pc |-> "idle"]

Max(S) == CHOOSE m \in S : \A k \in S : k <= m

(***************************************************************************)
(* Characters.                                                             *)
(***************************************************************************)
Digits == {"0", "1", "2", "3", "4", "5", "6", "7", "8", "9"}

Lower == {"a", "b", "c", "d", "e", "f", "g", "h", "i", "j", "k", "l", "m",
          "n", "o", "p", "q", "r", "s", "t", "u", "v", "w", "x", "y", "z"}

Upper == {"A", "B", "C", "D", "E", "F", "G", "H", "I", "J", "K", "L", "M",
          "N", "O", "P", "Q", "R", "S", "T", "U", "V", "W", "X", "Y", "Z"}

\* char::is_whitespace on the characters of the model
Whitespace == {" ", "\n", "\t"}

\* a letter outside 'a'..='z' | 'A'..='Z'
OtherLetters == {"é"}

\* char::is_alphabetic on the characters of the model
Alphabetic == Lower \cup Upper \cup OtherLetters

Punctuation == {"(", ")", "[", "]", "{", "}", ",", ".", "-", "+", ";", "/",
                "*", "!", "=", ">", "<", "\"", "#", "@"}

\* every character a source of the model may hold
Chars == Digits \cup Alphabetic \cup Whitespace \cup Punctuation \cup {"_"}

\* 0u32.wrapping_sub(1), i.e. u32::MAX = 2^32 - 1, which is beyond the integers
\* the checker handles: it is written as the same bit pattern read as an i32.
\* No position of a source of the model equals it.
u32_MAX == -1

(***************************************************************************)
(* token.rs                                                                *)
(***************************************************************************)
WithSpan(value, start_pos, end_pos) ==
    [value |-> value, start_pos |-> start_pos, end_pos |-> end_pos]

(***************************************************************************)
(* lexer.rs.  The cursor is the 0-based index of the next character, so    *)
(* source[cursor] of the code is source[cursor + 1] here.                  *)
(***************************************************************************)
lexer_is_at_end(source, cursor) == cursor = Len(source)

lexer_peek(source, cursor) ==
    IF ~lexer_is_at_end(source, cursor) THEN source[cursor + 1] ELSE None

\* consume_while with the closure given as the set of characters it accepts;
\* the result is the cursor after the run (the consumed characters are
\* source[cursor+1 .. result])
RECURSIVE consume_while(_, _, _)
consume_while(source, cursor, accept) ==
    IF lexer_peek(source, cursor) # None /\ lexer_peek(source, cursor) \in accept
    THEN consume_while(source, cursor + 1, accept)
    ELSE cursor

consume_if(source, cursor, ch) ==
    IF lexer_peek(source, cursor) = ch THEN cursor + 1 ELSE cursor

\* if_match: the token and the cursor after it
if_match(source, cursor, ch, then, else_) ==
    IF lexer_peek(source, cursor) = ch
    THEN [tok |-> then, cursor |-> cursor + 1]
    ELSE [tok |-> else_, cursor |-> cursor]

check_comment(source, cursor) ==
    /\ cursor + 2 <= Len(source)
    /\ SubSeq(source, cursor + 1, cursor + 2) = <<"/", "/">>

skip_whitespace(source, cursor) == consume_while(source, cursor, Whitespace)

skip_comment(source, cursor) ==
    IF check_comment(source, cursor)
    THEN skip_whitespace(source, consume_while(source, cursor, Chars \ {"\n"}))
    ELSE cursor

number(source, cursor) ==
    LET c1 == consume_while(source, cursor, Digits)
        c2 == consume_if(source, c1, ".")
    IN  [tok |-> "Number",
         cursor |-> IF c2 # c1 THEN consume_while(source, c2, Digits) ELSE c1]

keyword(match_chars) ==
    CASE match_chars = <<"a", "n", "d">> -> "And"
      [] match_chars = <<"e", "l", "s", "e">> -> "Else"
      [] match_chars = <<"f", "a", "l", "s", "e">> -> "False"
      [] match_chars = <<"f", "o", "r">> -> "For"
      [] match_chars = <<"f", "u", "n">> -> "Fun"
      [] match_chars = <<"i", "f">> -> "If"
      [] match_chars = <<"i", "n">> -> "In"
      [] match_chars = <<"n", "i", "l">> -> "Nil"
      [] match_chars = <<"o", "r">> -> "Or"
      [] match_chars = <<"p", "r", "i", "n", "t">> -> "Print"
      [] match_chars = <<"r", "e", "t", "u", "r", "n">> -> "Return"
      [] match_chars = <<"t", "r", "u", "e">> -> "True"
      [] match_chars = <<"l", "e", "t">> -> "Let"
      [] OTHER -> "Identifier"

\* identifier(ch): called with the cursor just after ch
identifier(source, cursor, ch) ==
    LET c1 == consume_while(source, cursor, Alphabetic \cup {"_"})
        match_chars == <<ch>> \o SubSeq(source, cursor + 1, c1)
    IN  [tok |-> keyword(match_chars), cursor |-> c1]

\* string(): called with the cursor just after the opening quote; an
\* unterminated string only prints a message and still is a String token
string(source, cursor) ==
    LET c1 == consume_while(source, cursor, Chars \ {"\""})
    IN  [tok |-> "String", cursor |-> consume_if(source, c1, "\"")]

single(tok, cursor) == [tok |-> tok, cursor |-> cursor]

\* next_token: [tok, start_pos, cursor]; tok = None at the end of the source.
\* start_pos is only assigned when a character was read.
next_token(source, start_pos, cursor) ==
    LET scan(c0) ==
            IF lexer_is_at_end(source, c0)
            THEN [tok |-> None, start_pos |-> start_pos, cursor |-> c0]
            ELSE LET ch == source[c0 + 1]
                     c == c0 + 1
                     spanned(r) == [tok |-> r.tok, start_pos |-> c - 1, cursor |-> r.cursor]
                 IN  spanned(
                       CASE ch = "(" -> single("LeftParen", c)
                         [] ch = ")" -> single("RightParen", c)
                         [] ch = "[" -> single("LeftBracket", c)
                         [] ch = "]" -> single("RightBracket", c)
                         [] ch = "{" -> single("LeftBrace", c)
                         [] ch = "}" -> single("RightBrace", c)
                         [] ch = "," -> single("Comma", c)
                         [] ch = "." -> single("Dot", c)
                         [] ch = "-" -> single("Minus", c)
                         [] ch = "+" -> single("Plus", c)
                         [] ch = ";" -> single("Semicolon", c)
                         [] ch = "/" -> single("Slash", c)
                         [] ch = "*" -> single("Star", c)
                         [] ch = "!" -> if_match(source, c, "=", "NotEqual", "Not")
                         [] ch = "=" -> if_match(source, c, "=", "EqualEqual", "Equal")
                         [] ch = ">" -> if_match(source, c, "=", "GreaterEqual", "Greater")
                         [] ch = "<" -> if_match(source, c, "=", "LessEqual", "Less")
                         [] ch = "\"" -> string(source, c)
                         [] ch \in Digits -> number(source, c)
                         [] ch \in Lower \cup Upper \cup {"_"} -> identifier(source, c, ch)
                         [] OTHER -> single("Error", c))
    IN  scan(skip_comment(source, skip_whitespace(source, cursor)))

\* `self.cursor as u32 - 1` of the Eof span: with cursor = 0 the subtraction
\* overflows, which panics when overflow checks are on and wraps otherwise
eof_overflows(cursor, checks) == cursor = 0 /\ checks

eof_pos(cursor) == IF cursor >= 1 THEN cursor - 1 ELSE u32_MAX

\* the tokens still to come from (start_pos, cursor), Eof included; <<>> marks
\* a panic, since a completed vector always holds Eof
RECURSIVE tokenize_from(_, _, _, _)
tokenize_from(source, start_pos, cursor, checks) ==
    LET prepend(t, rest) ==
            IF rest = <<>> THEN <<>>
            ELSE <<WithSpan(t.tok, t.start_pos, t.cursor - 1)>> \o rest
        push(t) ==
            IF t.tok # None
            THEN prepend(t, tokenize_from(source, t.start_pos, t.cursor, checks))
            ELSE IF eof_overflows(t.cursor, checks) THEN <<>>
                 ELSE <<WithSpan("Eof", eof_pos(t.cursor), eof_pos(t.cursor))>>
    IN  push(next_token(source, start_pos, cursor))

\* pub fn tokenize_with_context(buf): the whole vector, or <<>> on a panic
tokenize_with_context(source, checks) == tokenize_from(source, 0, 0, checks)

(***************************************************************************)
(* SpecLex: Lexer::tokenize_with_context as a loop.                        *)
(***************************************************************************)
\* the characters SpecLex draws its sources from: one or two of every class
\* next_token distinguishes
LexChars == {"a", "=", "\"", "/", "\n", " ", "1", "#"}

RECURSIVE SeqsUpTo(_, _)
SeqsUpTo(S, n) ==
    IF n = 0 THEN {<<>>}
    ELSE LET shorter == SeqsUpTo(S, n - 1)
         IN  shorter \cup {Append(s, c) : s \in {t \in shorter : Len(t) = n - 1}, c \in S}

\* Lexer::new
LexerNew(source) ==
    [source |-> source, start_pos |-> 0, cursor |-> 0, tokens |-> <<>>, pc |-> "scan"]

\* one iteration of `while let Some(token) = self.next_token()` that pushes
LexPush ==
    /\ lexer.pc = "scan"
    /\ LET t == next_token(lexer.source, lexer.start_pos, lexer.cursor)
       IN  /\ t.tok # None
           /\ lexer' = [lexer EXCEPT !.start_pos = t.start_pos,
                                     !.cursor = t.cursor,
                                     !.tokens = Append(@, WithSpan(t.tok, t.start_pos, t.cursor - 1))]
    /\ UNCHANGED <<overflow_checks, parser, environment, interp>>

\* the iteration in which next_token returns None, and the push of Eof
LexEof ==
    /\ lexer.pc = "scan"
    /\ LET t == next_token(lexer.source, lexer.start_pos, lexer.cursor)
           e == eof_pos(t.cursor)
       IN  /\ t.tok = None
           /\ lexer' = IF eof_overflows(t.cursor, overflow_checks)
                       THEN [lexer EXCEPT !.cursor = t.cursor, !.pc = "panic"]
                       ELSE [lexer EXCEPT !.cursor = t.cursor,
                                          !.tokens = Append(@, WithSpan("Eof", e, e)),
                                          !.pc = "done"]
    /\ UNCHANGED <<overflow_checks, parser, environment, interp>>

(***************************************************************************)
(* f64.  A number is a sign and a magnitude n/d in lowest terms, or an     *)
(* infinity, or NaN; zero keeps its sign, as in IEEE 754.  Rounding is not *)
(* modelled: the literals of the model are short decimals.                 *)
(***************************************************************************)
RECURSIVE Gcd(_, _)
Gcd(a, b) == IF b = 0 THEN a ELSE Gcd(b, a % b)

Fin(neg, n, d) ==
    [cls |-> "fin", neg |-> neg, n |-> n \div Gcd(n, d), d |-> d \div Gcd(n, d)]

Inf(neg) == [cls |-> "inf", neg |-> neg, n |-> 1, d |-> 0]

NaN == [cls |-> "nan", neg |-> FALSE, n |-> 0, d |-> 0]

F64(i) == Fin(FALSE, i, 1)

DigitValue(c) ==
    CASE c = "0" -> 0 [] c = "1" -> 1 [] c = "2" -> 2 [] c = "3" -> 3 [] c = "4" -> 4
      [] c = "5" -> 5 [] c = "6" -> 6 [] c = "7" -> 7 [] c = "8" -> 8 [] c = "9" -> 9

RECURSIVE Pow10(_)
Pow10(k) == IF k = 0 THEN 1 ELSE 10 * Pow10(k - 1)

\* the integer a run of decimal digits denotes
RECURSIVE DecimalValue(_)
DecimalValue(digits) ==
    IF digits = <<>> THEN 0
    ELSE 10 * DecimalValue(SubSeq(digits, 1, Len(digits) - 1)) + DigitValue(digits[Len(digits)])

\* str::parse::<f64> on the lexemes Lexer::number produces: digits, then
\* optionally a dot and digits ("1", "1.5", "1.")
parse_f64(lexeme) ==
    LET dots == {i \in 1..Len(lexeme) : lexeme[i] = "."}
    IN  IF dots = {} THEN F64(DecimalValue(lexeme))
        ELSE LET dot == CHOOSE i \in dots : TRUE
                 int == SubSeq(lexeme, 1, dot - 1)
                 frac == SubSeq(lexeme, dot + 1, Len(lexeme))
             IN  Fin(FALSE, DecimalValue(int) * Pow10(Len(frac)) + DecimalValue(frac),
                     Pow10(Len(frac)))

(***************************************************************************)
(* ast.rs (Logical and If as interpreter.rs matches on them)               *)
(***************************************************************************)
NoExpr == [tag |-> "None"]

Binary(l, op, r) == [tag |-> "Binary", l |-> l, op |-> op, r |-> r]
Logical(l, op, r) == [tag |-> "Logical", l |-> l, op |-> op, r |-> r]
Unary(op, e) == [tag |-> "Unary", op |-> op, e |-> e]
Number(n) == [tag |-> "Number", n |-> n]
Boolean(b) == [tag |-> "Boolean", b |-> b]
Nil == [tag |-> "Nil"]
String(s) == [tag |-> "String", s |-> s]
Variable(name) == [tag |-> "Variable", name |-> name]
Assignment(name, e) == [tag |-> "Assignment", name |-> name, e |-> e]

Block(stmts) == [tag |-> "Block", stmts |-> stmts]
ExprStmt(e) == [tag |-> "Expr", e |-> e]
Let(name, init) == [tag |-> "Let", name |-> name, init |-> init]
PrintStmt(e) == [tag |-> "Print", e |-> e]
IfStmt(cond, then, else_) == [tag |-> "If", cond |-> cond, then |-> then, else_ |-> else_]

(***************************************************************************)
(* parser.rs.  A parser value p is the Parser struct, with `panicked` set  *)
(* once an index or slice is out of range; every method returns the struct *)
(* it leaves behind: [p, res, val] with res "Ok" or "Err".  The token      *)
(* cursor is 0-based as in the code.                                       *)
(***************************************************************************)
Ok(p, val) == [p |-> p, res |-> "Ok", val |-> val]
Err(p) == [p |-> p, res |-> "Err", val |-> NoExpr]
Panic(p) == [p EXCEPT !.panicked = TRUE]

\* Parser::new; the lexer panicking leaves no parser at all
ParserNew(source, checks) ==
    LET new(toks) == [tokens |-> toks, source |-> source, cursor |-> 0, errors |-> <<>>,
                      panicked |-> toks = <<>>]
    IN  new(tokenize_with_context(source, checks))

token_at(p, at) == p.tokens[at + 1]

is_at_end(p) == token_at(p, p.cursor).value = "Eof"

peek(p) == IF ~is_at_end(p) THEN token_at(p, p.cursor).value ELSE None

check(p, token) == peek(p) = token

advance(p) == [p EXCEPT !.cursor = @ + 1]

\* usize index of a u32 position: in range of the source or not
InSource(p, pos) == 0 <= pos /\ pos < Len(p.source)

get_line(p, token_start_pos) ==
    1 + Cardinality({i \in 0..token_start_pos : p.source[i + 1] = "\n"})

\* error_at: one more entry of self.errors (the message, the line, the token)
error_at(p, at, msg) ==
    IF p.panicked THEN p
    ELSE IF at < 0 \/ at >= Len(p.tokens) \/ ~InSource(p, token_at(p, at).start_pos)
    THEN Panic(p)
    ELSE [p EXCEPT !.errors = Append(@, [msg |-> msg,
                                         line |-> get_line(p, token_at(p, at).start_pos),
                                         token |-> token_at(p, at)])]

\* match_token: [p, hit]
match_token(p, token) ==
    IF peek(p) = token THEN [p |-> advance(p), hit |-> TRUE]
    ELSE [p |-> p, hit |-> FALSE]

\* a | b | ... on match_token calls: `|` evaluates every operand, so every
\* call runs, each on the parser the one before left
RECURSIVE match_each(_, _)
match_each(p, toks) ==
    IF toks = <<>> THEN [p |-> p, hit |-> FALSE]
    ELSE LET m == match_token(p, Head(toks))
             rest == match_each(m.p, Tail(toks))
         IN  [p |-> rest.p, hit |-> m.hit \/ rest.hit]

\* a || b on match_token calls: the second runs only when the first fails
match_first(p, a, b) ==
    LET m == match_token(p, a)
    IN  IF m.hit THEN m ELSE match_token(p, b)

consume(p, token, msg) ==
    IF peek(p) = token THEN Ok(advance(p), NoExpr)
    ELSE Err(error_at(p, p.cursor, msg))

\* next: [p, tok]
parser_next(p) ==
    IF peek(p) # None THEN [p |-> advance(p), tok |-> peek(p)]
    ELSE [p |-> p, tok |-> None]

\* previous_token: self.tokens[self.cursor - 1]; None marks the panic of the
\* index underflowing at cursor = 0
previous_token(p) ==
    IF p.cursor >= 1 THEN token_at(p, p.cursor - 1).value ELSE None

\* source[start ..= end] in range
SliceOk(p, from, to) == 0 <= from /\ from <= to /\ to <= Len(p.source)

\* parse_string: source[start_pos + 1 .. end_pos]; <<"panic">> is not a text
\* (its one element is no character)
parse_string(p, at) ==
    LET token == token_at(p, at)
    IN  IF SliceOk(p, token.start_pos + 1, token.end_pos)
        THEN SubSeq(p.source, token.start_pos + 2, token.end_pos)
        ELSE <<"panic">>

\* parse_name: source[start_pos ..= end_pos]
parse_name(p, at) ==
    LET token == token_at(p, at)
    IN  IF SliceOk(p, token.start_pos, token.end_pos + 1)
        THEN SubSeq(p.source, token.start_pos + 1, token.end_pos + 1)
        ELSE <<"panic">>

\* parse_number: source[start_pos ..= end_pos].parse().unwrap()
parse_number(p, at) == parse_f64(parse_name(p, at))

parse_binary_operator(token) ==
    IF token \in {"Minus", "Plus", "Slash", "Star", "EqualEqual", "Greater",
                  "GreaterEqual", "Less", "LessEqual", "NotEqual"}
    THEN token ELSE None

parser_unary_operator(token) ==
    IF token \in {"Not", "Minus"} THEN token ELSE None

RECURSIVE declaration(_), var_declaration(_), statement(_), parser_block(_),
          block_loop(_, _), parser_print_stmt(_), parser_expr_stmt(_),
          grouping(_), primary(_), parser_unary(_), factor(_), factor_loop(_, _),
          term(_), term_loop(_, _), comparison(_), comparison_loop(_, _),
          equality(_), equality_loop(_, _), parser_assignment(_), expr(_),
          self_call(_, _)

declaration(p) ==
    IF peek(p) # None
    THEN IF peek(p) = "Let" THEN self_call("var_declaration", p) ELSE self_call("statement", p)
    ELSE Err(p)

var_declaration(p) ==
    LET c1 == consume(advance(p), "Identifier", "Expected Identifier")
    IN  IF c1.res = "Err" THEN Err(c1.p)
        ELSE LET identifier_lexeme == parse_name(c1.p, c1.p.cursor - 1)
                 m == match_token(c1.p, "Equal")
                 initializer_expr == IF m.hit THEN self_call("expr", m.p) ELSE Ok(m.p, NoExpr)
             IN  IF initializer_expr.res = "Err" THEN Err(initializer_expr.p)
                 ELSE LET c2 == consume(initializer_expr.p, "Semicolon",
                                        "Expected ';' after expr.")
                      IN  IF c2.res = "Err" THEN Err(c2.p)
                          ELSE Ok(c2.p, Let(identifier_lexeme, initializer_expr.val))

statement(p) ==
    IF peek(p) # None
    THEN CASE peek(p) = "LeftBrace" -> self_call("parser_block", p)
           [] peek(p) = "Print" -> self_call("parser_print_stmt", p)
           [] OTHER -> self_call("parser_expr_stmt", p)
    ELSE Err(p)

\* the while loop of Parser::block
block_loop(p, stmts) ==
    IF ~check(p, "RightBrace") /\ ~is_at_end(p)
    THEN LET d == self_call("declaration", p)
         IN  IF d.res = "Err" THEN Err(d.p) ELSE block_loop(d.p, Append(stmts, d.val))
    ELSE Ok(p, stmts)

parser_block(p) ==
    LET b == block_loop(advance(p), <<>>)
    IN  IF b.res = "Err" THEN Err(b.p)
        ELSE LET c == consume(b.p, "RightBrace", "Expected '}' after block.")
             IN  IF c.res = "Err" THEN Err(c.p) ELSE Ok(c.p, Block(b.val))

parser_print_stmt(p) ==
    LET e == self_call("expr", advance(p))
    IN  IF e.res = "Ok"
        THEN LET c == consume(e.p, "Semicolon", "Expected ';' after expr")
             IN  IF c.res = "Err" THEN Err(c.p) ELSE Ok(c.p, PrintStmt(e.val))
        ELSE Err(error_at(e.p, e.p.cursor - 1, "Expected Expression after print."))

parser_expr_stmt(p) ==
    LET e == self_call("expr", p)
    IN  IF e.res = "Ok"
        THEN LET c == consume(e.p, "Semicolon", "Expected ';' after expr.")
             IN  IF c.res = "Err" THEN Err(c.p) ELSE Ok(c.p, ExprStmt(e.val))
        ELSE Err(error_at(e.p, e.p.cursor, "Expected expr statement."))

\* the expression's result is kept while ')' is consumed, and returned after
grouping(p) ==
    LET e == self_call("expr", p)
        c == consume(e.p, "RightParen", "Expected ')' after expr.")
    IN  IF c.res = "Err" THEN Err(c.p) ELSE [e EXCEPT !.p = c.p]

primary(p) ==
    LET n == parser_next(p)
        at == n.p.cursor - 1
    IN  IF n.tok # None
        THEN CASE n.tok = "Nil" -> Ok(n.p, Nil)
               [] n.tok = "False" -> Ok(n.p, Boolean(FALSE))
               [] n.tok = "True" -> Ok(n.p, Boolean(TRUE))
               [] n.tok = "Number" -> Ok(n.p, Number(parse_number(n.p, at)))
               [] n.tok = "String" ->
                    IF parse_string(n.p, at) = <<"panic">> THEN Err(Panic(n.p))
                    ELSE Ok(n.p, String(parse_string(n.p, at)))
               [] n.tok = "Identifier" -> Ok(n.p, Variable(parse_name(n.p, at)))
               [] n.tok = "LeftParen" -> self_call("grouping", n.p)
               [] OTHER -> Err(n.p)
        ELSE Err(error_at(p, p.cursor, "Expected Primary Token"))

parser_unary(p) ==
    LET m == match_each(p, <<"Not", "Minus">>)
    IN  IF m.hit
        THEN LET operator == parser_unary_operator(previous_token(m.p))
                 right == self_call("parser_unary", m.p)
             IN  IF operator = None THEN Err(m.p)
                 ELSE IF right.res = "Err" THEN Err(right.p)
                 ELSE Ok(right.p, Unary(operator, right.val))
        ELSE self_call("primary", p)

\* the loop of factor as it would be if the right operand were parsed by
\* factor itself: `10 / 2 * 5` would group to the right
factor_loop_right_operand_factor(p, left) ==
    LET m == match_each(p, <<"Star", "Slash">>)
    IN  IF m.hit
        THEN LET operator == parse_binary_operator(previous_token(m.p))
                 right == self_call("factor", m.p)
             IN  IF operator = None THEN Err(m.p)
                 ELSE IF right.res = "Err" THEN Err(right.p)
                 ELSE Ok(right.p, Binary(left, operator, right.val))
        ELSE Ok(p, left)

factor_loop(p, left) ==
    LET m == match_each(p, <<"Star", "Slash">>)
    IN  IF m.hit
        THEN LET operator == parse_binary_operator(previous_token(m.p))
                 right == self_call("parser_unary", m.p)
             IN  IF operator = None THEN Err(m.p)
                 ELSE IF right.res = "Err" THEN Err(right.p)
                 ELSE factor_loop(right.p, Binary(left, operator, right.val))
        ELSE Ok(p, left)

factor(p) ==
    LET left == self_call("parser_unary", p)
    IN  IF left.res = "Err" THEN Err(left.p) ELSE factor_loop(left.p, left.val)

term_loop(p, left) ==
    LET m == match_each(p, <<"Plus", "Minus">>)
    IN  IF m.hit
        THEN LET operator == parse_binary_operator(previous_token(m.p))
                 right == self_call("factor", m.p)
             IN  IF operator = None THEN Err(m.p)
                 ELSE IF right.res = "Err" THEN Err(right.p)
                 ELSE term_loop(right.p, Binary(left, operator, right.val))
        ELSE Ok(p, left)

term(p) ==
    LET left == self_call("factor", p)
    IN  IF left.res = "Err" THEN Err(left.p) ELSE term_loop(left.p, left.val)

comparison_loop(p, left) ==
    LET m == match_each(p, <<"Greater", "GreaterEqual", "Less", "LessEqual">>)
    IN  IF m.hit
        THEN LET operator == parse_binary_operator(previous_token(m.p))
                 right == self_call("term", m.p)
             IN  IF operator = None THEN Err(m.p)
                 ELSE IF right.res = "Err" THEN Err(right.p)
                 ELSE comparison_loop(right.p, Binary(left, operator, right.val))
        ELSE Ok(p, left)

comparison(p) ==
    LET left == self_call("term", p)
    IN  IF left.res = "Err" THEN Err(left.p) ELSE comparison_loop(left.p, left.val)

equality_loop(p, left) ==
    LET m == match_first(p, "NotEqual", "EqualEqual")
    IN  IF m.hit
        THEN LET operator == parse_binary_operator(previous_token(m.p))
                 right == self_call("comparison", m.p)
             IN  IF operator = None THEN Err(m.p)
                 ELSE IF right.res = "Err" THEN Err(right.p)
                 ELSE equality_loop(right.p, Binary(left, operator, right.val))
        ELSE Ok(p, left)

equality(p) ==
    LET left == self_call("comparison", p)
    IN  IF left.res = "Err" THEN Err(left.p) ELSE equality_loop(left.p, left.val)

\* assignment as it would be if an invalid target were fatal: the error is
\* recorded and Err returned
parser_assignment_invalid_target_err(p) ==
    LET left_expr == self_call("equality", p)
    IN  IF left_expr.res = "Err" THEN Err(left_expr.p)
        ELSE LET m == match_token(left_expr.p, "Equal")
                 equal_index == m.p.cursor - 1
                 right_expr == self_call("parser_assignment", m.p)
             IN  IF ~m.hit THEN Ok(left_expr.p, left_expr.val)
                 ELSE IF right_expr.res = "Err" THEN Err(right_expr.p)
                 ELSE IF left_expr.val.tag = "Variable"
                 THEN Ok(right_expr.p, Assignment(left_expr.val.name, right_expr.val))
                 ELSE Err(error_at(right_expr.p, equal_index, "Invalid assignment target."))

parser_assignment(p) ==
    LET left_expr == self_call("equality", p)
    IN  IF left_expr.res = "Err" THEN Err(left_expr.p)
        ELSE LET m == match_token(left_expr.p, "Equal")
                 equal_index == m.p.cursor - 1
                 right_expr == self_call("parser_assignment", m.p)
             IN  IF ~m.hit THEN Ok(left_expr.p, left_expr.val)
                 ELSE IF right_expr.res = "Err" THEN Err(right_expr.p)
                 ELSE IF left_expr.val.tag = "Variable"
                 THEN Ok(right_expr.p, Assignment(left_expr.val.name, right_expr.val))
                 ELSE Ok(error_at(right_expr.p, equal_index, "Invalid assignment target."),
                         left_expr.val)

expr(p) == self_call("parser_assignment", p)

\* a call `self.method()` of one grammar method from another
self_call(method, p) ==
    CASE method = "declaration" -> declaration(p)
      [] method = "var_declaration" -> var_declaration(p)
      [] method = "statement" -> statement(p)
      [] method = "parser_block" -> parser_block(p)
      [] method = "parser_print_stmt" -> parser_print_stmt(p)
      [] method = "parser_expr_stmt" -> parser_expr_stmt(p)
      [] method = "grouping" -> grouping(p)
      [] method = "primary" -> primary(p)
      [] method = "parser_unary" -> parser_unary(p)
      [] method = "factor" -> factor(p)
      [] method = "term" -> term(p)
      [] method = "comparison" -> comparison(p)
      [] method = "equality" -> equality(p)
      [] method = "parser_assignment" -> parser_assignment(p)
      [] method = "expr" -> expr(p)

SyncTokens == {"For", "Fun", "If", "Print", "Return", "Let", "Eof"}

RECURSIVE synchronize(_)
synchronize(p) ==
    IF p.panicked \/ is_at_end(p) THEN p
    ELSE IF previous_token(p) = None THEN Panic(p)
    ELSE IF previous_token(p) = "Semicolon" THEN p
    ELSE IF peek(p) \in SyncTokens THEN p
    ELSE synchronize(advance(p))

\* one iteration of the while loop of Parser::parse: [p, statements]
parse_iteration(p, statements) ==
    LET matched(d) ==
            IF d.res = "Ok" THEN [p |-> d.p, statements |-> Append(statements, d.val)]
            ELSE [p |-> synchronize(d.p), statements |-> statements]
    IN  matched(self_call("declaration", p))

RECURSIVE parse_loop(_, _)
parse_loop(p, statements) ==
    LET again(it) == parse_loop(it.p, it.statements)
    IN  IF p.panicked \/ is_at_end(p) THEN [p |-> p, statements |-> statements]
        ELSE again(parse_iteration(p, statements))

\* Parser::new(src).parse() with the struct it leaves: [p, statements]
parse_with_parser(source, checks) == parse_loop(ParserNew(source, checks), <<>>)

\* pub fn parse(src) -> Vec<Stmt>
parse(source, checks) == parse_with_parser(source, checks).statements

(***************************************************************************)
(* SpecParse: Parser::parse as a loop, on sources written as lexemes       *)
(* separated by one space.                                                 *)
(***************************************************************************)
kw_print == <<"p", "r", "i", "n", "t">>
kw_let == <<"l", "e", "t">>

\* the lexemes of a source, separated by spaces
RECURSIVE Join(_)
Join(lexemes) ==
    IF lexemes = <<>> THEN <<>>
    ELSE IF Len(lexemes) = 1 THEN Head(lexemes)
    ELSE Head(lexemes) \o <<" ">> \o Join(Tail(lexemes))

\* free-form sources: any lexemes in any order
FreeLexemes == {kw_print, kw_let, <<"a">>, <<"1">>, <<";">>, <<"=">>, <<"(">>,
                <<"{">>, <<"}">>, <<"\"">>}

FreeSources == {Join(ls) : ls \in SeqsUpTo(FreeLexemes, MaxPieces)}

\* one statement's worth of lexemes: no ';', no brace and, after the first
\* lexeme, no keyword, so that the ';' closing it is its only boundary
StartLexemes == {kw_print, kw_let, <<"a">>, <<"1">>, <<"(">>, <<"=">>, <<"+">>, <<")">>}
InnerLexemes == {<<"a">>, <<"1">>, <<"(">>, <<")">>, <<"=">>, <<"+">>}

StatementTexts ==
    {Join(<<first>> \o rest \o <<(<<";">>)>>) :
        first \in StartLexemes, rest \in SeqsUpTo(InnerLexemes, MaxPieces - 1)}

\* a statement is well-formed when the parser makes exactly one statement of
\* it and records nothing
WellFormed(text) ==
    LET r == parse_with_parser(text, FALSE)
    IN  ~r.p.panicked /\ r.p.errors = <<>> /\ Len(r.statements) = 1

MalformedStmts == {t \in StatementTexts : ~WellFormed(t)}

FollowUps == {Join(<<kw_print, <<"1">>, <<";">> >>),
              Join(<<(<<"a">>), <<"=">>, <<"1">>, <<";">> >>),
              Join(<<kw_let, <<"a">>, <<";">> >>)}

RecoveryInputs ==
    {[kind |-> "recovery", malformed |-> m, wellformed |-> w] :
        m \in MalformedStmts, w \in FollowUps}

InputSource(input) ==
    IF input.kind = "recovery" THEN input.malformed \o <<" ">> \o input.wellformed
    ELSE input.source

\* expression statements over 10, 2 and 5, each with the tree its grouping
\* stands for
FactorOps == {"Star", "Slash"}
TermOps == {"Plus", "Minus"}
UnaryOps == {"Not", "Minus"}

OpLexeme(op) ==
    CASE op = "Star" -> <<"*">>
      [] op = "Slash" -> <<"/">>
      [] op = "Plus" -> <<"+">>
      [] op = "Minus" -> <<"-">>
      [] op = "Not" -> <<"!">>

Ten == <<"1", "0">>
Two == <<"2">>
Five == <<"5">>

ExprInput(lexemes, tree) ==
    [kind |-> "expr", source |-> Join(lexemes \o <<(<<";">>)>>), expected |-> ExprStmt(tree)]

\* 10 op1 2 op2 5, both operators of one level
SameLevelInputs ==
    {ExprInput(<<Ten, OpLexeme(ops[1]), Two, OpLexeme(ops[2]), Five>>,
               Binary(Binary(Number(F64(10)), ops[1], Number(F64(2))), ops[2], Number(F64(5)))) :
        ops \in (FactorOps \X FactorOps) \cup (TermOps \X TermOps)}

\* 10 op1 ( 2 op2 5 )
GroupedInputs ==
    {ExprInput(<<Ten, OpLexeme(ops[1]), <<"(">>, Two, OpLexeme(ops[2]), Five, <<")">> >>,
               Binary(Number(F64(10)), ops[1], Binary(Number(F64(2)), ops[2], Number(F64(5))))) :
        ops \in (FactorOps \cup TermOps) \X (FactorOps \cup TermOps)}

\* u 10 op 2, and 10 / u ( 2 * 5 ) + 2
UnaryInputs ==
    {ExprInput(<<OpLexeme(uop[1]), Ten, OpLexeme(uop[2]), Two>>,
               Binary(Unary(uop[1], Number(F64(10))), uop[2], Number(F64(2)))) :
        uop \in UnaryOps \X (FactorOps \cup TermOps)}
    \cup
    {ExprInput(<<Ten, <<"/">>, OpLexeme(u), <<"(">>, Two, <<"*">>, Five, <<")">>, <<"+">>, Two>>,
               Binary(Binary(Number(F64(10)), "Slash",
                             Unary(u, Binary(Number(F64(2)), "Star", Number(F64(5))))),
                      "Plus", Number(F64(2)))) :
        u \in UnaryOps}

ExprInputs == SameLevelInputs \cup GroupedInputs \cup UnaryInputs

\* left-hand sides of `=`: the lexemes and the expression they parse to
TargetLefts ==
    {[lexemes |-> <<(<<"a">>)>>, tree |-> Variable(<<"a">>)],
     [lexemes |-> <<(<<"1">>)>>, tree |-> Number(F64(1))],
     [lexemes |-> <<(<<"(">>), <<"a">>, <<")">>, <<"+">>, <<"1">> >>,
      tree |-> Binary(Variable(<<"a">>), "Plus", Number(F64(1)))],
     [lexemes |-> <<(<<"-">>), <<"a">> >>, tree |-> Unary("Minus", Variable(<<"a">>))],
     [lexemes |-> <<(<<"a">>), <<"=", "=">>, <<"1">> >>,
      tree |-> Binary(Variable(<<"a">>), "EqualEqual", Number(F64(1)))],
     [lexemes |-> <<(<<"\"", "a", "\"">>)>>, tree |-> String(<<"a">>)],
     [lexemes |-> <<(<<"n", "i", "l">>)>>, tree |-> Nil]}

\* right-hand sides: a value, and an assignment of its own
TargetRights ==
    {[lexemes |-> <<Two>>, tree |-> Number(F64(2))],
     [lexemes |-> <<(<<"b">>), <<"=">>, Two>>,
      tree |-> Assignment(<<"b">>, Number(F64(2)))]}

\* the statements an expression can stand in
TargetStatement(context, e) ==
    CASE context = "expr" -> ExprStmt(e)
      [] context = "print" -> PrintStmt(e)
      [] context = "let" -> Let(<<"c">>, e)

TargetOpening(context) ==
    CASE context = "expr" -> <<>>
      [] context = "print" -> <<kw_print>>
      [] context = "let" -> <<kw_let, <<"c">>, <<"=">> >>

\* `left = right ;` in a statement, followed by a well-formed statement
TargetInputs ==
    {[kind |-> "target",
      source |-> Join(TargetOpening(context) \o left.lexemes \o <<(<<"=">>)>>
                      \o right.lexemes \o <<(<<";">>)>>) \o <<" ">> \o w,
      valid |-> left.tree.tag = "Variable",
      expected |-> <<TargetStatement(context,
                                     IF left.tree.tag = "Variable"
                                     THEN Assignment(left.tree.name, right.tree)
                                     ELSE left.tree),
                     parse(w, FALSE)[1]>>] :
        context \in {"expr", "print", "let"}, left \in TargetLefts,
        right \in TargetRights, w \in FollowUps}

ParseInputs ==
    RecoveryInputs \cup {[kind |-> "free", source |-> f] : f \in FreeSources} \cup ExprInputs
    \cup TargetInputs

ParserStart(input, checks) ==
    LET p == ParserNew(InputSource(input), checks)
    IN  [p |-> p, statements |-> <<>>, input |-> input,
         pc |-> IF p.panicked THEN "panic" ELSE "parse"]

InitParse ==
    /\ overflow_checks \in BOOLEAN
    /\ parser \in {ParserStart(input, overflow_checks) : input \in ParseInputs}
    /\ lexer = LexerIdle
    /\ environment = EnvironmentIdle
    /\ interp = InterpIdle

\* a loop iteration whose declaration() is Ok: the statement is pushed
ParsePush ==
    /\ parser.pc = "parse"
    /\ ~is_at_end(parser.p)
    /\ declaration(parser.p).res = "Ok"
    /\ LET it == parse_iteration(parser.p, parser.statements)
       IN  parser' = [parser EXCEPT !.p = it.p, !.statements = it.statements,
                                    !.pc = IF it.p.panicked THEN "panic" ELSE "parse"]
    /\ UNCHANGED <<overflow_checks, lexer, environment, interp>>

\* a loop iteration whose declaration() is Err: synchronize runs
ParseSynchronize ==
    /\ parser.pc = "parse"
    /\ ~is_at_end(parser.p)
    /\ declaration(parser.p).res = "Err"
    /\ LET it == parse_iteration(parser.p, parser.statements)
       IN  parser' = [parser EXCEPT !.p = it.p, !.statements = it.statements,
                                    !.pc = IF it.p.panicked THEN "panic" ELSE "parse"]
    /\ UNCHANGED <<overflow_checks, lexer, environment, interp>>

\* the loop ends at Eof and parse returns the statements
ParseReturn ==
    /\ parser.pc = "parse"
    /\ is_at_end(parser.p)
    /\ parser' = [parser EXCEPT !.pc = "done"]
    /\ UNCHANGED <<overflow_checks, lexer, environment, interp>>

NextParse == ParsePush \/ ParseSynchronize \/ ParseReturn

SpecParse == InitParse /\ [][NextParse]_vars

\* C7: parser resilience: for a source made of one malformed statement
\* followed by one well-formed statement, parse records exactly one
\* diagnostic and the returned program contains the well-formed statement.
C7_ParserResilience ==
    (parser.pc \in {"done", "panic"} /\ parser.input.kind = "recovery") =>
        /\ parser.pc = "done"
        /\ Len(parser.p.errors) = 1
        /\ \E i \in 1..Len(parser.statements) :
              parser.statements[i] = parse(parser.input.wellformed, overflow_checks)[1]

InitLex ==
    /\ overflow_checks \in BOOLEAN
    /\ lexer \in {LexerNew(s) : s \in SeqsUpTo(LexChars, MaxSourceLen)}
    /\ parser = ParserIdle
    /\ environment = EnvironmentIdle
    /\ interp = InterpIdle

NextLex == LexPush \/ LexEof

SpecLex == InitLex /\ [][NextLex]_vars

TokenValues(tokens) == [i \in 1..Len(tokens) |-> tokens[i].value]

\* C6: tokenization is total: tokenize never fails (no panic) on any input,
\* the scan stays inside the source, and the finished token vector holds Eof
\* exactly once, as its last element.
C6_TokenizeTotal ==
    /\ lexer.pc # "panic"
    /\ lexer.cursor <= Len(lexer.source)
    /\ lexer.pc = "done" =>
          /\ Len(lexer.tokens) >= 1
          /\ lexer.tokens[Len(lexer.tokens)].value = "Eof"
          /\ \A i \in 1..(Len(lexer.tokens) - 1) : lexer.tokens[i].value # "Eof"
          /\ lexer.tokens = tokenize_with_context(lexer.source, overflow_checks)

(***************************************************************************)
(* f64 arithmetic and comparison (IEEE 754 without rounding).              *)
(***************************************************************************)
IsZero(a) == a.cls = "fin" /\ a.n = 0

Signed(a) == IF a.neg THEN 0 - a.n ELSE a.n

Abs(i) == IF i < 0 THEN 0 - i ELSE i

f64_neg(a) == IF a.cls = "nan" THEN NaN ELSE [a EXCEPT !.neg = ~@]

f64_add(a, b) ==
    CASE a.cls = "nan" \/ b.cls = "nan" -> NaN
      [] a.cls = "inf" /\ b.cls = "inf" -> IF a.neg = b.neg THEN a ELSE NaN
      [] a.cls = "inf" -> a
      [] b.cls = "inf" -> b
      [] OTHER ->
            LET num == Signed(a) * b.d + Signed(b) * a.d
            IN  IF num = 0 THEN Fin(a.neg /\ b.neg, 0, 1)
                ELSE Fin(num < 0, Abs(num), a.d * b.d)

f64_sub(a, b) == f64_add(a, f64_neg(b))

f64_mul(a, b) ==
    CASE a.cls = "nan" \/ b.cls = "nan" -> NaN
      [] a.cls = "inf" \/ b.cls = "inf" ->
            IF IsZero(a) \/ IsZero(b) THEN NaN ELSE Inf(a.neg # b.neg)
      [] OTHER -> Fin(a.neg # b.neg, a.n * b.n, a.d * b.d)

f64_div(a, b) ==
    CASE a.cls = "nan" \/ b.cls = "nan" -> NaN
      [] a.cls = "inf" -> IF b.cls = "inf" THEN NaN ELSE Inf(a.neg # b.neg)
      [] b.cls = "inf" -> Fin(a.neg # b.neg, 0, 1)
      [] IsZero(b) -> IF IsZero(a) THEN NaN ELSE Inf(a.neg # b.neg)
      [] OTHER -> Fin(a.neg # b.neg, a.n * b.d, a.d * b.n)

\* f64::partial_cmp: "Less", "Equal", "Greater", or None when either is NaN
f64_partial_cmp(a, b) ==
    CASE a.cls = "nan" \/ b.cls = "nan" -> None
      [] a.cls = "inf" /\ b.cls = "inf" ->
            IF a.neg = b.neg THEN "Equal" ELSE IF a.neg THEN "Less" ELSE "Greater"
      [] a.cls = "inf" -> IF a.neg THEN "Less" ELSE "Greater"
      [] b.cls = "inf" -> IF b.neg THEN "Greater" ELSE "Less"
      [] OTHER ->
            LET x == Signed(a) * b.d
                y == Signed(b) * a.d
            IN  IF x < y THEN "Less" ELSE IF x > y THEN "Greater" ELSE "Equal"

(***************************************************************************)
(* value.rs                                                                *)
(***************************************************************************)
Bool(b) == [kind |-> "Bool", b |-> b]
Num(n) == [kind |-> "Num", n |-> n]
ValueNil == [kind |-> "Nil"]
Str(s) == [kind |-> "String", s |-> s]

ValueOk(v) == [res |-> "Ok", val |-> v]
ValueErr(msg) == [res |-> "Err", err |-> [msg |-> msg]]

\* the characters in code point order, for the ordering of strings
CharOrder ==
    <<"\t", "\n", " ", "!", "\"", "#", "(", ")", "*", "+", ",", "-", ".", "/",
      "0", "1", "2", "3", "4", "5", "6", "7", "8", "9", ";", "<", "=", ">", "@",
      "A", "B", "C", "D", "E", "F", "G", "H", "I", "J", "K", "L", "M",
      "N", "O", "P", "Q", "R", "S", "T", "U", "V", "W", "X", "Y", "Z",
      "[", "]", "_",
      "a", "b", "c", "d", "e", "f", "g", "h", "i", "j", "k", "l", "m",
      "n", "o", "p", "q", "r", "s", "t", "u", "v", "w", "x", "y", "z", "{", "}", "é">>

CharCode(c) == CHOOSE i \in 1..Len(CharOrder) : CharOrder[i] = c

RECURSIVE str_cmp(_, _)
str_cmp(a, b) ==
    CASE a = <<>> /\ b = <<>> -> "Equal"
      [] a = <<>> -> "Less"
      [] b = <<>> -> "Greater"
      [] CharCode(Head(a)) < CharCode(Head(b)) -> "Less"
      [] CharCode(Head(a)) > CharCode(Head(b)) -> "Greater"
      [] OTHER -> str_cmp(Tail(a), Tail(b))

\* the position of a variant in `enum Value`, which #[derive(PartialOrd)] compares first
Discriminant(v) ==
    CASE v.kind = "Bool" -> 0 [] v.kind = "Num" -> 1 [] v.kind = "Nil" -> 2
      [] v.kind = "String" -> 3

\* #[derive(PartialOrd)]
value_partial_cmp(a, b) ==
    CASE Discriminant(a) < Discriminant(b) -> "Less"
      [] Discriminant(a) > Discriminant(b) -> "Greater"
      [] a.kind = "Bool" ->
            IF a.b = b.b THEN "Equal" ELSE IF b.b THEN "Less" ELSE "Greater"
      [] a.kind = "Num" -> f64_partial_cmp(a.n, b.n)
      [] a.kind = "Nil" -> "Equal"
      [] a.kind = "String" -> str_cmp(a.s, b.s)

\* #[derive(PartialEq)]
value_eq(a, b) ==
    /\ a.kind = b.kind
    /\ CASE a.kind = "Bool" -> a.b = b.b
         [] a.kind = "Num" -> f64_partial_cmp(a.n, b.n) = "Equal"
         [] a.kind = "Nil" -> TRUE
         [] a.kind = "String" -> a.s = b.s

value_not(v) ==
    IF v.kind = "Bool" THEN ValueOk(Bool(~v.b))
    ELSE ValueErr("oprands must be boolean")

value_div(a, b) ==
    IF a.kind = "Num" /\ b.kind = "Num" THEN ValueOk(Num(f64_div(a.n, b.n)))
    ELSE ValueErr("Both operands must be of number type.")

value_mul(a, b) ==
    IF a.kind = "Num" /\ b.kind = "Num" THEN ValueOk(Num(f64_mul(a.n, b.n)))
    ELSE ValueErr("Both operands must be of number type.")

value_sub(a, b) ==
    IF a.kind = "Num" /\ b.kind = "Num" THEN ValueOk(Num(f64_sub(a.n, b.n)))
    ELSE ValueErr("Both operands must be of number type.")

\* add as it would be if the String arm did not look at its right operand: a
\* string plus anything else succeeds
value_add_string_with_any(a, b) ==
    IF a.kind = "Num" /\ b.kind = "Num" THEN ValueOk(Num(f64_add(a.n, b.n)))
    ELSE IF a.kind = "String"
    THEN ValueOk(Str(a.s \o (IF b.kind = "String" THEN b.s ELSE <<>>)))
    ELSE ValueErr("both oprands must be number or string type.")

value_add(a, b) ==
    IF a.kind = "Num" /\ b.kind = "Num" THEN ValueOk(Num(f64_add(a.n, b.n)))
    ELSE IF a.kind = "String" /\ b.kind = "String" THEN ValueOk(Str(a.s \o b.s))
    ELSE ValueErr("both oprands must be number or string type.")

(***************************************************************************)
(* environment.rs.  A scope is a function from the names it binds to       *)
(* Option<Value>; environments[1] is the global scope.                     *)
(***************************************************************************)
Some(v) == [some |-> TRUE, v |-> v]
NoValue == [some |-> FALSE]

EmptyScope == [name \in {} |-> NoValue]

\* HashMap::insert
Insert(scope, name, value) == (name :> value) @@ scope

EnvironmentNew == <<EmptyScope>>

begin_scope(environments) == Append(environments, EmptyScope)

\* Vec::pop, which leaves an empty vector empty
end_scope(environments) ==
    IF environments = <<>> THEN environments
    ELSE SubSeq(environments, 1, Len(environments) - 1)

\* define_var needs a scope: last_mut().expect("No scope yet.")
define_var_panics(environments) == environments = <<>>

define_var(environments, name, value) ==
    [environments EXCEPT ![Len(environments)] = Insert(@, name, value)]

\* get_var as it would be if a binding without a value did not end the search
RECURSIVE get_var_from_skipping_uninitialized(_, _, _)
get_var_from_skipping_uninitialized(environments, name, i) ==
    IF i = 0 THEN ValueErr("Variable is undefined.")
    ELSE IF name \in DOMAIN environments[i] /\ environments[i][name].some
    THEN ValueOk(environments[i][name].v)
    ELSE get_var_from_skipping_uninitialized(environments, name, i - 1)

\* the loop `for i in (0..len).rev()` of get_var, from scope i down
RECURSIVE get_var_from(_, _, _)
get_var_from(environments, name, i) ==
    IF i = 0 THEN ValueErr("Variable is undefined.")
    ELSE IF name \in DOMAIN environments[i]
    THEN IF environments[i][name].some THEN ValueOk(environments[i][name].v)
         ELSE ValueErr("Variable is not initialized.")
    ELSE get_var_from(environments, name, i - 1)

\* get_var(&mut self, name): the environments it leaves and its result
get_var(environments, name) ==
    [envs |-> environments, result |-> get_var_from(environments, name, Len(environments))]

\* assign_var as it would be without the `break`: every scope binding the
\* name is overwritten
RECURSIVE assign_var_from_without_break(_, _, _, _)
assign_var_from_without_break(environments, name, value, i) ==
    IF i = 0 THEN environments
    ELSE assign_var_from_without_break(
             IF name \in DOMAIN environments[i]
             THEN [environments EXCEPT ![i] = Insert(@, name, Some(value))]
             ELSE environments,
             name, value, i - 1)

\* the loop of assign_var, from scope i down: the environments it leaves
RECURSIVE assign_var_from(_, _, _, _)
assign_var_from(environments, name, value, i) ==
    IF i = 0 THEN environments
    ELSE IF name \in DOMAIN environments[i]
    THEN [environments EXCEPT ![i] = Insert(@, name, Some(value))]
    ELSE assign_var_from(environments, name, value, i - 1)

\* assign_var: after the loop, whether it broke out or ran to its end, the
\* function returns Err(format!("Undefined variable '{}'", name))
assign_var(environments, name, value) ==
    [envs |-> assign_var_from(environments, name, value, Len(environments)),
     result |-> [res |-> "Err", err |-> [msg |-> "Undefined variable", name |-> name]]]

(***************************************************************************)
(* interpreter.rs.  Expression methods take the environments and return    *)
(* [envs, result]; statement methods take and return [envs, stdout, res,   *)
(* err], stdout being the lines printed so far.                            *)
(***************************************************************************)
NoErr == [msg |-> "None"]

RunOk(envs, stdout) == [envs |-> envs, stdout |-> stdout, res |-> "Ok", err |-> NoErr]
RunErr(envs, stdout, err) == [envs |-> envs, stdout |-> stdout, res |-> "Err", err |-> err]

Evaluated(envs, result) == [envs |-> envs, result |-> result]

RECURSIVE evaluate(_, _), interp_assignment(_, _, _), logical(_, _, _, _),
          binary(_, _, _, _), interp_unary(_, _, _),
          run(_, _), run_each(_, _), interp_block(_, _), interp_expr_stmt(_, _),
          if_stmt(_, _, _, _), interp_print_stmt(_, _), let_stmt(_, _, _)

variable(name, envs) == get_var(envs, name)

interp_assignment(name, e, envs) ==
    LET value == evaluate(e, envs)
    IN  IF value.result.res = "Err" THEN value
        ELSE assign_var(value.envs, name, value.result.val)

\* logical as it would be without the early returns: right is always
\* evaluated
logical_without_short_circuit(left, op, right, envs) ==
    LET then_right(l) == IF l.result.res = "Err" THEN l ELSE evaluate(right, l.envs)
    IN  then_right(evaluate(left, envs))

logical(left, op, right, envs) ==
    LET l == evaluate(left, envs)
    IN  IF l.result.res = "Err" THEN l
        ELSE IF op = "And" /\ value_eq(l.result.val, Bool(FALSE)) THEN l
        ELSE IF op = "Or" /\ value_eq(l.result.val, Bool(TRUE)) THEN l
        ELSE evaluate(right, l.envs)

\* the match of Interpreter::binary on two values
binary_op(op, left, right) ==
    LET cmp == value_partial_cmp(left, right)
    IN  CASE op = "Slash" -> value_div(left, right)
          [] op = "Star" -> value_mul(left, right)
          [] op = "Plus" -> value_add(left, right)
          [] op = "Minus" -> value_sub(left, right)
          [] op = "Greater" -> ValueOk(Bool(cmp = "Greater"))
          [] op = "GreaterEqual" -> ValueOk(Bool(cmp \in {"Greater", "Equal"}))
          [] op = "Less" -> ValueOk(Bool(cmp = "Less"))
          [] op = "LessEqual" -> ValueOk(Bool(cmp \in {"Less", "Equal"}))
          [] op = "EqualEqual" -> ValueOk(Bool(value_eq(left, right)))
          [] op = "NotEqual" -> ValueOk(Bool(~value_eq(left, right)))

\* binary as it would be if the right operand were evaluated first
binary_right_first(left, op, right, envs) ==
    LET r == evaluate(right, envs)
        l == evaluate(left, r.envs)
    IN  IF r.result.res = "Err" THEN r
        ELSE IF l.result.res = "Err" THEN l
        ELSE Evaluated(l.envs, binary_op(op, l.result.val, r.result.val))

binary(left, op, right, envs) ==
    LET l == evaluate(left, envs)
        r == evaluate(right, l.envs)
    IN  IF l.result.res = "Err" THEN l
        ELSE IF r.result.res = "Err" THEN r
        ELSE Evaluated(r.envs, binary_op(op, l.result.val, r.result.val))

\* both arms of the match, Not and Minus, apply `!`
interp_unary(op, e, envs) ==
    LET v == evaluate(e, envs)
    IN  IF v.result.res = "Err" THEN v
        ELSE Evaluated(v.envs, value_not(v.result.val))

evaluate(e, envs) ==
    CASE e.tag = "Binary" -> binary(e.l, e.op, e.r, envs)
      [] e.tag = "Logical" -> logical(e.l, e.op, e.r, envs)
      [] e.tag = "Unary" -> interp_unary(e.op, e.e, envs)
      [] e.tag = "Number" -> Evaluated(envs, ValueOk(Num(e.n)))
      [] e.tag = "Boolean" -> Evaluated(envs, ValueOk(Bool(e.b)))
      [] e.tag = "Nil" -> Evaluated(envs, ValueOk(ValueNil))
      [] e.tag = "String" -> Evaluated(envs, ValueOk(Str(e.s)))
      [] e.tag = "Variable" -> variable(e.name, envs)
      [] e.tag = "Assignment" -> interp_assignment(e.name, e.e, envs)

\* `for stmt in stmts { self.run(stmt)? }`
run_each(stmts, st) ==
    IF stmts = <<>> THEN st
    ELSE LET r == run(Head(stmts), st)
         IN  IF r.res = "Err" THEN r ELSE run_each(Tail(stmts), r)

\* block as it would be without its begin_scope: end_scope then pops a scope
\* the block never pushed
interp_block_without_begin_scope(stmts, st) ==
    LET ended(r) == IF r.res = "Err" THEN r ELSE [r EXCEPT !.envs = end_scope(@)]
    IN  ended(run_each(stmts, st))

\* on an error `?` returns before end_scope is reached
interp_block(stmts, st) ==
    LET r == run_each(stmts, [st EXCEPT !.envs = begin_scope(@)])
    IN  IF r.res = "Err" THEN r ELSE [r EXCEPT !.envs = end_scope(@)]

interp_expr_stmt(e, st) ==
    LET v == evaluate(e, st.envs)
    IN  IF v.result.res = "Err" THEN RunErr(v.envs, st.stdout, v.result.err)
        ELSE RunOk(v.envs, st.stdout)

if_stmt(e, then_stmt, else_stmt, st) ==
    LET v == evaluate(e, st.envs)
        st1 == RunOk(v.envs, st.stdout)
    IN  IF v.result.res = "Err" THEN RunErr(v.envs, st.stdout, v.result.err)
        ELSE IF value_eq(v.result.val, Bool(TRUE)) THEN run(then_stmt, st1)
        ELSE IF else_stmt # NoExpr THEN run(else_stmt, st1)
        ELSE st1

interp_print_stmt(e, st) ==
    LET v == evaluate(e, st.envs)
    IN  IF v.result.res = "Err" THEN RunErr(v.envs, st.stdout, v.result.err)
        ELSE RunOk(v.envs, Append(st.stdout, [line |-> "Value", value |-> v.result.val]))

\* `let mut value = Value::Nil`, replaced by the initializer's value if there
\* is one; the name is always defined with Some(value)
let_stmt(name, initializer, st) ==
    LET v == IF initializer # NoExpr THEN evaluate(initializer, st.envs)
             ELSE Evaluated(st.envs, ValueOk(ValueNil))
    IN  IF v.result.res = "Err" THEN RunErr(v.envs, st.stdout, v.result.err)
        ELSE RunOk(define_var(v.envs, name, Some(v.result.val)), st.stdout)

run(stmt, st) ==
    CASE stmt.tag = "Block" -> interp_block(stmt.stmts, st)
      [] stmt.tag = "Expr" -> interp_expr_stmt(stmt.e, st)
      [] stmt.tag = "If" -> if_stmt(stmt.cond, stmt.then, stmt.else_, st)
      [] stmt.tag = "Print" -> interp_print_stmt(stmt.e, st)
      [] stmt.tag = "Let" -> let_stmt(stmt.name, stmt.init, st)

\* Interpreter::new() and the call interpret(src), before it has parsed
InterpreterNew(src) ==
    [src |-> src, envs |-> EnvironmentNew, prev_envs |-> EnvironmentNew, ast |-> <<>>,
     ip |-> 0, results |-> <<>>, stdout |-> <<>>, pc |-> "parse"]

\* `let ast = parse(src)`: the parser prints its diagnostics (its dump of the
\* tokens and its "IN Sync" trace lines are left out of stdout)
interpret_parse(i, checks) ==
    LET r == parse_with_parser(i.src, checks)
    IN  IF r.p.panicked THEN [i EXCEPT !.pc = "panic"]
        ELSE [i EXCEPT !.ast = r.statements,
                       !.stdout = [k \in 1..Len(r.p.errors) |->
                                      [line |-> "ParseErr", err |-> r.p.errors[k]]],
                       !.pc = "run"]

\* the loop of interpret as it would be if it returned at the first error:
\* no later statement is run
interpret_stmt_halting(i) ==
    LET stmt == i.ast[i.ip + 1]
        r == run(stmt, RunOk(i.envs, Append(i.stdout, [line |-> "Stmt", stmt |-> stmt])))
    IN  [i EXCEPT !.envs = r.envs,
                  !.prev_envs = i.envs,
                  !.ip = IF r.res = "Err" THEN Len(i.ast) ELSE @ + 1,
                  !.results = Append(@, [res |-> r.res, err |-> r.err]),
                  !.stdout = IF r.res = "Err"
                             THEN Append(r.stdout, [line |-> "RuntimeErr", err |-> r.err])
                             ELSE r.stdout]

\* one iteration of `for stmt in ast`: the statement is printed and run, and
\* an error is printed; the loop goes on either way
interpret_stmt(i) ==
    LET stmt == i.ast[i.ip + 1]
        r == run(stmt, RunOk(i.envs, Append(i.stdout, [line |-> "Stmt", stmt |-> stmt])))
    IN  [i EXCEPT !.envs = r.envs,
                  !.prev_envs = i.envs,
                  !.ip = @ + 1,
                  !.results = Append(@, [res |-> r.res, err |-> r.err]),
                  !.stdout = IF r.res = "Err"
                             THEN Append(r.stdout, [line |-> "RuntimeErr", err |-> r.err])
                             ELSE r.stdout]

(***************************************************************************)
(* SpecEnv: an Environment and the calls of its methods, one at a time.    *)
(* end_scope is only called on a scope begin_scope pushed, as block does.  *)
(***************************************************************************)
EnvNames == {<<"a">>, <<"b">>}

\* what define_var is given: no value, or a value
EnvDefineValues == {NoValue, Some(Num(F64(1)))}

\* what assign_var is given
EnvAssignValues == {Num(F64(2))}

NoCall == [op |-> "new", name |-> <<>>, value |-> NoValue, result |-> [res |-> "None"]]

Call(op, name, value, result) ==
    [op |-> op, name |-> name, value |-> value, result |-> result]

InitEnv ==
    /\ overflow_checks = FALSE
    /\ environment = [environments |-> EnvironmentNew, prev |-> EnvironmentNew,
                      last |-> NoCall, calls |-> 0, pc |-> "run"]
    /\ lexer = LexerIdle
    /\ parser = ParserIdle
    /\ interp = InterpIdle

EnvStep(environments, call) ==
    /\ environment.pc = "run"
    /\ environment.calls < MaxCalls
    /\ environment' = [environment EXCEPT !.environments = environments,
                                          !.prev = environment.environments,
                                          !.last = call,
                                          !.calls = @ + 1]
    /\ UNCHANGED <<overflow_checks, lexer, parser, interp>>

EnvBeginScope ==
    /\ Len(environment.environments) < MaxScopes
    /\ EnvStep(begin_scope(environment.environments), Call("begin_scope", <<>>, NoValue, [res |-> "None"]))

EnvEndScope ==
    /\ Len(environment.environments) > 1
    /\ EnvStep(end_scope(environment.environments), Call("end_scope", <<>>, NoValue, [res |-> "None"]))

EnvDefineVar ==
    \E name \in EnvNames, value \in EnvDefineValues :
        /\ ~define_var_panics(environment.environments)
        /\ EnvStep(define_var(environment.environments, name, value),
                   Call("define_var", name, value, [res |-> "None"]))

EnvGetVar ==
    \E name \in EnvNames :
        LET r == get_var(environment.environments, name)
        IN  EnvStep(r.envs, Call("get_var", name, NoValue, r.result))

EnvAssignVar ==
    \E name \in EnvNames, value \in EnvAssignValues :
        LET r == assign_var(environment.environments, name, value)
        IN  EnvStep(r.envs, Call("assign_var", name, Some(value), r.result))

NextEnv == EnvBeginScope \/ EnvEndScope \/ EnvDefineVar \/ EnvGetVar \/ EnvAssignVar

SpecEnv == InitEnv /\ [][NextEnv]_vars

\* the scopes of an environment that bind a name
Binders(environments, name) ==
    {i \in 1..Len(environments) : name \in DOMAIN environments[i]}

IsUndefinedVariable(result) ==
    result.res = "Err" /\ result.err.msg \in {"Variable is undefined.", "Undefined variable"}

IsUninitializedVariable(result) ==
    result.res = "Err" /\ result.err.msg = "Variable is not initialized."

\* C9: get(name) is decided by the innermost scope that binds the name: its
\* value if it has one, UninitializedVariable if it has none (whatever outer
\* scopes hold), UndefinedVariable if no scope binds the name; and get leaves
\* the environment as it was.
C9_GetResolvesInnermost ==
    environment.last.op = "get_var" =>
        LET name == environment.last.name
            result == environment.last.result
            before == environment.prev
            binders == Binders(before, name)
        IN  /\ environment.environments = before
            /\ binders = {} => IsUndefinedVariable(result)
            /\ binders # {} =>
                  LET binding == before[Max(binders)][name]
                  IN  IF binding.some
                      THEN result.res = "Ok" /\ result.val = binding.v
                      ELSE IsUninitializedVariable(result)

\* C9's case: the nearest binding has no value while an outer scope holds an
\* initialized binding of the same name, and get fails with UninitializedVariable
C9_Witness ==
    /\ environment.last.op = "get_var"
    /\ LET binders == Binders(environment.prev, environment.last.name)
       IN  /\ Cardinality(binders) >= 2
           /\ ~environment.prev[Max(binders)][environment.last.name].some
           /\ \E i \in binders : environment.prev[i][environment.last.name].some
    /\ IsUninitializedVariable(environment.last.result)

\* C10: assign(name, value) changes only the binding of name in the innermost
\* scope that binds it (which then holds the value): the number of scopes, the
\* names each scope binds and every other binding, outer bindings of the same
\* name included, stay as they were; when no scope binds the name it fails
\* with UndefinedVariable and the environment is unchanged.
C10_AssignFrame ==
    environment.last.op = "assign_var" =>
        LET name == environment.last.name
            before == environment.prev
            after == environment.environments
            binders == Binders(before, name)
        IN  /\ Len(after) = Len(before)
            /\ \A i \in 1..Len(before) : DOMAIN after[i] = DOMAIN before[i]
            /\ binders = {} =>
                  after = before /\ IsUndefinedVariable(environment.last.result)
            /\ binders # {} =>
                  /\ after[Max(binders)][name] = environment.last.value
                  /\ \A i \in 1..Len(before) : \A n \in DOMAIN before[i] :
                        (i # Max(binders) \/ n # name) => after[i][n] = before[i][n]

\* C10's case: the name is bound in two scopes, the inner binding was
\* overwritten and the outer one kept a different content
C10_Witness ==
    /\ environment.last.op = "assign_var"
    /\ LET name == environment.last.name
           binders == Binders(environment.prev, name)
       IN  /\ Cardinality(binders) >= 2
           /\ environment.environments[Max(binders)][name] # environment.prev[Max(binders)][name]
           /\ \E i \in binders :
                 /\ i # Max(binders)
                 /\ environment.environments[i][name] = environment.prev[i][name]
                 /\ environment.environments[i][name] # environment.last.value

(***************************************************************************)
(* Spec: Interpreter::interpret on programs written as statements of a     *)
(* fixed pool, one top-level statement a step.                             *)
(***************************************************************************)
NameA == <<"a">>
NameB == <<"b">>
NameC == <<"c">>

LetA == <<kw_let, NameA, <<";">> >>
LetA1 == <<kw_let, NameA, <<"=">>, <<"1">>, <<";">> >>
LetB2 == <<kw_let, NameB, <<"=">>, <<"2">>, <<";">> >>
AssignA3 == <<NameA, <<"=">>, <<"3">>, <<";">> >>
ChainAB3 == <<NameA, <<"=">>, NameB, <<"=">>, <<"3">>, <<";">> >>
PrintA == <<kw_print, NameA, <<";">> >>
PrintB == <<kw_print, NameB, <<";">> >>
PrintAssignA3 == <<kw_print, NameA, <<"=">>, <<"3">>, <<";">> >>
ShadowBlock == <<(<<"{">>), kw_let, NameA, <<"=">>, <<"2">>, <<";">>, kw_print, NameA, <<";">>, <<"}">> >>
FailingBlock == <<(<<"{">>), kw_let, NameA, <<"=">>, <<"2">>, <<";">>, kw_print, NameC, <<";">>, <<"}">> >>
TypeError == <<kw_print, <<"1">>, <<"+">>, <<"t", "r", "u", "e">>, <<";">> >>
NestedFailingBlock == <<(<<"{">>), <<"{">>, kw_print, NameC, <<";">>, <<"}">>, <<"}">> >>

\* the statements programs are made of, each a sequence of lexemes
StmtPool == {LetA, LetA1, LetB2, AssignA3, ChainAB3, PrintA, PrintB, PrintAssignA3,
             ShadowBlock, FailingBlock, TypeError, NestedFailingBlock}

RECURSIVE Concat(_)
Concat(seqs) == IF seqs = <<>> THEN <<>> ELSE Head(seqs) \o Concat(Tail(seqs))

Programs == {Join(Concat(stmts)) : stmts \in SeqsUpTo(StmtPool, MaxStmts)}

Init ==
    /\ overflow_checks \in BOOLEAN
    /\ interp \in {InterpreterNew(src) : src \in Programs}
    /\ lexer = LexerIdle
    /\ parser = ParserIdle
    /\ environment = EnvironmentIdle

InterpretParse ==
    /\ interp.pc = "parse"
    /\ interp' = interpret_parse(interp, overflow_checks)
    /\ UNCHANGED <<overflow_checks, lexer, parser, environment>>

InterpretStmt ==
    /\ interp.pc = "run"
    /\ interp.ip < Len(interp.ast)
    /\ interp' = interpret_stmt(interp)
    /\ UNCHANGED <<overflow_checks, lexer, parser, environment>>

InterpretReturn ==
    /\ interp.pc = "run"
    /\ interp.ip = Len(interp.ast)
    /\ interp' = [interp EXCEPT !.pc = "done"]
    /\ UNCHANGED <<overflow_checks, lexer, parser, environment>>

Next == InterpretParse \/ InterpretStmt \/ InterpretReturn

Spec == Init /\ [][Next]_vars

\* the statement that ran last, its result, and what a name reads as
LastStmt == interp.ast[interp.ip]
LastResult == interp.results[interp.ip]
Reads(envs, name) == get_var(envs, name).result
Bound(envs, name) == Binders(envs, name) # {}

\* C1: a Block ends its scope on every exit path: after any top-level
\* statement, failed or not, the scope stack is as deep as before it, so the
\* depth is back to 1.
C1_BlockEndsScope ==
    interp.ip > 0 => Len(interp.envs) = Len(interp.prev_envs) /\ Len(interp.envs) = 1

\* C2: evaluating Assignment(name, expr) with name bound in some scope and
\* expr evaluating to v yields the success result v: the statement holding
\* the assignment does not fail.
C2_AssignmentYieldsValue ==
    (/\ interp.ip > 0
     /\ LastStmt.tag \in {"Expr", "Print"}
     /\ LastStmt.e.tag = "Assignment"
     /\ Bound(interp.prev_envs, LastStmt.e.name)
     /\ evaluate(LastStmt.e.e, interp.prev_envs).result.res = "Ok")
    => /\ evaluate(LastStmt.e, interp.prev_envs).result
              = evaluate(LastStmt.e.e, interp.prev_envs).result
       /\ LastResult.res = "Ok"

ChainAB3Stmt == ExprStmt(Assignment(NameA, Assignment(NameB, Number(F64(3)))))

\* C3: `a = b = 3;` parses to Assignment(a, Assignment(b, 3)), and executed
\* with a and b both declared it raises no runtime error and leaves both a
\* and b reading as 3.
C3_ChainedAssignment ==
    /\ (interp.pc = "run" /\ interp.src = Join(ChainAB3)) => interp.ast = <<ChainAB3Stmt>>
    /\ (/\ interp.ip > 0
        /\ LastStmt = ChainAB3Stmt
        /\ Bound(interp.prev_envs, NameA)
        /\ Bound(interp.prev_envs, NameB))
       => /\ LastResult.res = "Ok"
          /\ Reads(interp.envs, NameA) = ValueOk(Num(F64(3)))
          /\ Reads(interp.envs, NameB) = ValueOk(Num(F64(3)))

\* C4: a `let` without an initializer binds the name with no value, so that
\* reading it before any assignment fails with UninitializedVariable: right
\* after `let x;` a read of x fails so, and so does the statement `print x;`.
C4_LetWithoutInitializer ==
    /\ (/\ interp.ip > 0
        /\ LastStmt.tag = "Let"
        /\ LastStmt.init = NoExpr)
       => IsUninitializedVariable(Reads(interp.envs, LastStmt.name))
    /\ (/\ interp.ip > 1
        /\ interp.ast[interp.ip - 1].tag = "Let"
        /\ interp.ast[interp.ip - 1].init = NoExpr
        /\ LastStmt = PrintStmt(Variable(interp.ast[interp.ip - 1].name)))
       => IsUninitializedVariable(LastResult)

IsStmtLine(l) == l.line = "Stmt"
IsRuntimeErrLine(l) == l.line = "RuntimeErr"

\* the top-level statements that were executed, in the order of execution
Executed ==
    LET lines == SelectSeq(interp.stdout, IsStmtLine)
    IN  [k \in 1..Len(lines) |-> lines[k].stmt]

Failed == {k \in 1..Len(interp.results) : interp.results[k].res = "Err"}

\* C5: a runtime error of a top-level statement is reported and every later
\* top-level statement is still executed, in source order: the statements
\* executed so far are the first ip statements of the program, one result
\* each, every failure has its report, and the run ends only once all
\* statements were executed.
C5_FailuresIsolated ==
    /\ Executed = SubSeq(interp.ast, 1, interp.ip)
    /\ Len(interp.results) = Len(Executed)
    /\ Len(SelectSeq(interp.stdout, IsRuntimeErrLine)) = Cardinality(Failed)
    /\ interp.pc = "done" => Executed = interp.ast

\* C5 witness: the run is over, a statement failed with a runtime error and
\* a later statement was executed and succeeded.
C5_Witness ==
    /\ interp.pc = "done"
    /\ \E j \in Failed : \E k \in (j + 1)..Len(Executed) :
           /\ interp.results[k].res = "Ok"
           /\ interp.results[j].err.msg \in {"Variable is undefined.",
                                               "both oprands must be number or string type."}

\* a block of `let`s and prints of variables: nothing in it assigns
NoAssignment(stmts) ==
    \A k \in 1..Len(stmts) :
        \/ stmts[k].tag = "Let" /\ stmts[k].init.tag = "Number"
        \/ stmts[k].tag = "Print" /\ stmts[k].e.tag = "Variable"

\* C8: a `let` inside a block shadows an outer binding while the block runs,
\* and once the block has ended every name resolves exactly as it did before
\* the block.
C8_BlockLocalScoping ==
    (/\ interp.ip > 0
     /\ LastStmt.tag = "Block"
     /\ NoAssignment(LastStmt.stmts))
    => \A name \in {NameA, NameB, NameC} : Reads(interp.envs, name) = Reads(interp.prev_envs, name)

\* C11: the scope stack is never empty during a run: whatever statements
\* were executed, failed or not, it holds at least the global scope.
C11_StackNeverEmpty ==
    /\ Len(interp.envs) >= 1
    /\ interp.ip > 0 => Len(interp.prev_envs) >= 1

\* C11 witness: the run is over, a block succeeded and a nested block failed
\* (leaving its two scopes behind).
C11_Witness ==
    /\ interp.pc = "done"
    /\ Len(interp.envs) >= 3
    /\ \E k \in 1..Len(interp.ast) :
           interp.ast[k].tag = "Block" /\ interp.results[k].res = "Ok"

(***************************************************************************)
(* SpecEval: one call of Interpreter::evaluate on an expression, in an     *)
(* environment where a and b are bound and c is not.  The parser of this   *)
(* snapshot builds no Logical node, so the expressions are given as trees. *)
(***************************************************************************)
BinaryOperators == {"Slash", "Star", "Plus", "Minus", "Greater", "GreaterEqual",
                    "Less", "LessEqual", "EqualEqual", "NotEqual"}

LogicalOperators == {"And", "Or"}

\* literals of every kind of value
Literals == {Number(F64(0)), Number(F64(1)), String(<<"a">>), String(<<"b">>),
             Boolean(TRUE), Boolean(FALSE), Nil}

\* operands: literals, a read that succeeds, a read that fails, and
\* assignments (which store and, as assign_var does, fail)
Operands ==
    Literals \cup {Variable(NameA), Variable(NameC),
                   Assignment(NameA, Number(F64(2))), Assignment(NameB, Number(F64(3)))}

EvalExprs ==
    {Binary(l, op, r) : l \in Operands, op \in BinaryOperators, r \in Operands}
    \cup {Logical(l, op, r) : l \in Operands, op \in LogicalOperators, r \in Operands}

\* a and b bound in the global scope; a bound again in an inner scope
EvalEnvs ==
    {define_var(define_var(EnvironmentNew, NameA, Some(Num(F64(1)))),
                NameB, Some(Num(F64(1)))),
     define_var(begin_scope(define_var(define_var(EnvironmentNew, NameA, Some(Bool(TRUE))),
                                       NameB, Some(Str(<<"b">>)))),
                NameA, Some(Num(F64(1))))}

InitEval ==
    /\ overflow_checks = FALSE
    /\ lexer = LexerIdle
    /\ parser = ParserIdle
    /\ environment = EnvironmentIdle
    /\ interp \in {[pc |-> "evaluate", expr |-> e, envs |-> envs] :
                      e \in EvalExprs, envs \in EvalEnvs}

Evaluate ==
    /\ interp.pc = "evaluate"
    /\ interp' = [pc |-> "evaluated", expr |-> interp.expr, envs |-> interp.envs,
                  out |-> evaluate(interp.expr, interp.envs)]
    /\ UNCHANGED <<overflow_checks, lexer, parser, environment>>

NextEval == Evaluate

SpecEval == InitEval /\ [][NextEval]_vars

\* the evaluation of the left operand, which comes first
LeftOut == evaluate(interp.expr.l, interp.envs)

\* the evaluation of the right operand in the environment left leaves
RightOut == evaluate(interp.expr.r, LeftOut.envs)

ShortCircuits ==
    \/ interp.expr.op = "And" /\ LeftOut.result.val = Bool(FALSE)
    \/ interp.expr.op = "Or" /\ LeftOut.result.val = Bool(TRUE)

\* C12: Logical(left, And, right) with left exactly Bool(false), and
\* Logical(left, Or, right) with left exactly Bool(true), return left and do
\* not evaluate right (none of its errors or assignments happen); for every
\* other left value right is evaluated and its result returned.
C12_LogicalShortCircuit ==
    (/\ interp.pc = "evaluated"
     /\ interp.expr.tag = "Logical"
     /\ LeftOut.result.res = "Ok")
    => IF ShortCircuits THEN interp.out = LeftOut ELSE interp.out = RightOut

\* C12 witness: `false and (a = 2)` was evaluated: the result is false and a
\* is what it was.
C12_Witness ==
    /\ interp.pc = "evaluated"
    /\ interp.expr = Logical(Boolean(FALSE), "And", Assignment(NameA, Number(F64(2))))
    /\ interp.out.result = ValueOk(Bool(FALSE))
    /\ interp.out.envs = interp.envs
    /\ RightOut.envs # interp.envs

MaxTextPieces == 4

TriviaPieces == {<<" ">>, <<"\n">>, <<"/", "/", "a", "\n">>}
RealPieces == {<<"a">>, <<"1">>, <<";">>}

TriviaInputs ==
    {[kind |-> "trivia", pieces |-> ps] :
        ps \in SeqsUpTo(TriviaPieces \cup RealPieces, MaxTextPieces) \ {<<>>}}

MergeChars == {"!", "=", ">", "<"}

MunchInputs ==
    {[kind |-> "munch", pieces |-> ps] :
        ps \in SeqsUpTo({<<ch>> : ch \in MergeChars} \cup {<<"a">>, <<" ">>}, MaxPieces) \ {<<>>}}

\* the 13 keywords
KeywordTexts ==
    {<<"a", "n", "d">>, <<"e", "l", "s", "e">>, <<"f", "a", "l", "s", "e">>,
     <<"f", "o", "r">>, <<"f", "u", "n">>, <<"i", "f">>, <<"i", "n">>, <<"n", "i", "l">>,
     <<"o", "r">>, kw_print, <<"r", "e", "t", "u", "r", "n">>, <<"t", "r", "u", "e">>, kw_let}

Front(s) == SubSeq(s, 1, Len(s) - 1)

\* a keyword or a keyword cut short, alone or with something before or after
WordInputs ==
    {[kind |-> "word", pieces |-> <<before, word, after>>] :
        before \in {<<>>, <<"_">>, <<"x">>, <<"é">>},
        word \in KeywordTexts \cup {Front(k) : k \in KeywordTexts},
        after \in {<<>>, <<"_">>, <<"s">>, <<"é">>, <<"1">>, <<" ", "x">>}}

TextInputs == TriviaInputs \cup MunchInputs \cup WordInputs

InitText ==
    /\ overflow_checks \in BOOLEAN
    /\ lexer \in {LexerNew(Concat(input.pieces)) @@ [input |-> input] : input \in TextInputs}
    /\ parser = ParserIdle
    /\ environment = EnvironmentIdle
    /\ interp = InterpIdle

NextText == LexPush \/ LexEof

SpecText == InitText /\ [][NextText]_vars

\* the token kinds of a text without whitespace and comments (Eof left out)
KindsOf(text) ==
    LET kinds == TokenValues(tokenize_with_context(text, FALSE))
    IN  SubSeq(kinds, 1, Len(kinds) - 1)

\* the token kinds of the real tokens of the pieces: those of each run of
\* adjacent real pieces, in order
RECURSIVE RealKinds(_, _)
RealKinds(pieces, adjacent) ==
    IF pieces = <<>> THEN KindsOf(adjacent)
    ELSE IF Head(pieces) \in TriviaPieces
    THEN KindsOf(adjacent) \o RealKinds(Tail(pieces), <<>>)
    ELSE RealKinds(Tail(pieces), adjacent \o Head(pieces))

\* C14: comments and whitespace never produce tokens: for a source in which
\* whitespace and `//` line comments stand, in any number and order, before,
\* between or after real tokens, the token kinds emitted are those of the
\* real tokens, followed by Eof.
C14_TriviaProduceNoTokens ==
    (lexer.pc = "done" /\ lexer.input.kind = "trivia")
    => TokenValues(lexer.tokens) = RealKinds(lexer.input.pieces, <<>>) \o <<"Eof">>

\* the last position of the longest run of letters and underscores from `from`
WordEnd(source, from) ==
    Max({to \in from..Len(source) :
            \A i \in from..to : source[i] \in Alphabetic \cup {"_"}})

TwoCharToken(ch) ==
    CASE ch = "!" -> "NotEqual" [] ch = "=" -> "EqualEqual"
      [] ch = ">" -> "GreaterEqual" [] ch = "<" -> "LessEqual"

OneCharToken(ch) ==
    CASE ch = "!" -> "Not" [] ch = "=" -> "Equal"
      [] ch = ">" -> "Greater" [] ch = "<" -> "Less"

\* C15: lexer classification is maximal-munch: a token starting with `!`,
\* `=`, `>` or `<` is the two-character token when `=` follows at once and
\* the one-character token otherwise; a token starting with a letter or `_`
\* spans the longest run of letters and underscores, and is a keyword token
\* exactly when that text is one of the 13 keywords, Identifier otherwise.
C15_MaximalMunch ==
    lexer.pc # "idle" =>
    \A i \in 1..Len(lexer.tokens) :
        LET t == lexer.tokens[i]
            first == t.start_pos + 1
            ch == lexer.source[first]
        IN  t.value # "Eof" =>
            /\ ch \in MergeChars =>
                  IF first < Len(lexer.source) /\ lexer.source[first + 1] = "="
                  THEN t.value = TwoCharToken(ch) /\ t.end_pos = t.start_pos + 1
                  ELSE t.value = OneCharToken(ch) /\ t.end_pos = t.start_pos
            /\ ch \in Alphabetic \cup {"_"} =>
                  LET text == SubSeq(lexer.source, first, WordEnd(lexer.source, first))
                  IN  /\ t.end_pos + 1 = WordEnd(lexer.source, first)
                      /\ (text \in KeywordTexts) = (t.value # "Identifier")
                      /\ t.value = keyword(text)

(***************************************************************************)
(* SpecEval, continued: Binary.                                            *)
(***************************************************************************)
TypeErrors == {ValueErr("Both operands must be of number type."),
               ValueErr("both oprands must be number or string type.")}

\* what the claim says of op on the values l and r
TypeChecked(op, l, r, result) ==
    CASE op \in {"Minus", "Star", "Slash"} ->
            IF l.kind = "Num" /\ r.kind = "Num"
            THEN result.res = "Ok" /\ result.val.kind = "Num"
            ELSE result \in TypeErrors
      [] op = "Plus" ->
            IF l.kind = "Num" /\ r.kind = "Num"
            THEN result = ValueOk(Num(f64_add(l.n, r.n)))
            ELSE IF l.kind = "String" /\ r.kind = "String"
            THEN result = ValueOk(Str(l.s \o r.s))
            ELSE result \in TypeErrors
      [] op \in {"EqualEqual", "NotEqual"} ->
            /\ result.res = "Ok"
            /\ result.val.kind = "Bool"
            /\ l.kind # r.kind => result.val.b = (op = "NotEqual")
      [] OTHER -> TRUE

\* C16: value operators are type-checked with no implicit coercion: `-`,
\* `*`, `/` succeed only on (Num, Num); `+` succeeds only on (Num, Num),
\* giving the sum, or (String, String), giving the concatenation; every
\* other pairing fails with a type error; `==` and `!=` never fail and two
\* values of different kinds are never equal.
C16_OperatorsTypeChecked ==
    (/\ interp.pc = "evaluated"
     /\ interp.expr.tag = "Binary"
     /\ LeftOut.result.res = "Ok"
     /\ RightOut.result.res = "Ok")
    => TypeChecked(interp.expr.op, LeftOut.result.val, RightOut.result.val,
                   interp.out.result)

\* C16 witness: `"a" + 1` was evaluated and failed with the type error of
\* add.
C16_Witness ==
    /\ interp.pc = "evaluated"
    /\ interp.expr = Binary(String(<<"a">>), "Plus", Number(F64(1)))
    /\ interp.out.result = ValueErr("both oprands must be number or string type.")

\* C18: Binary(left, op, right) evaluates left, then right in the
\* environment left leaves, then applies op: when left fails its error is
\* the result and right is not evaluated (no assignment of right happens);
\* when right fails its error is the result; when both succeed the operator
\* is applied to the two values, each evaluated once, whether or not it then
\* fails.
C18_BinaryLeftThenRight ==
    (interp.pc = "evaluated" /\ interp.expr.tag = "Binary")
    => IF LeftOut.result.res = "Err" THEN interp.out = LeftOut
       ELSE IF RightOut.result.res = "Err" THEN interp.out = RightOut
       ELSE interp.out = Evaluated(RightOut.envs,
                                   binary_op(interp.expr.op, LeftOut.result.val,
                                             RightOut.result.val))

\* C18 witness: `c + (b = 3)` was evaluated: the read of c failed, and b is
\* what it was, while evaluating b = 3 would have changed it.
C18_Witness ==
    /\ interp.pc = "evaluated"
    /\ interp.expr = Binary(Variable(NameC), "Plus", Assignment(NameB, Number(F64(3))))
    /\ interp.out.result = ValueErr("Variable is undefined.")
    /\ interp.out.envs = interp.envs
    /\ evaluate(interp.expr.r, interp.envs).envs # interp.envs

\* C17: an invalid assignment target is a non-fatal parse error: when the
\* left-hand side of `=` is not a variable, the parser records one "Invalid
\* assignment target." diagnostic at the `=`, no declaration fails (so
\* synchronize never runs), the statement is produced with the left-hand
\* expression in place of the assignment, and the following statement is
\* parsed as usual; when the left-hand side is a variable the statement holds
\* Assignment(name, value) and nothing is recorded.
C17_InvalidTargetNonFatal ==
    parser.input.kind = "target" =>
        /\ parser.pc # "panic"
        /\ (parser.pc = "parse" /\ ~is_at_end(parser.p))
              => declaration(parser.p).res = "Ok"
        /\ parser.pc = "done" =>
              /\ parser.statements = parser.input.expected
              /\ IF parser.input.valid THEN parser.p.errors = <<>>
                 ELSE /\ Len(parser.p.errors) = 1
                      /\ parser.p.errors[1].msg = "Invalid assignment target."
                      /\ parser.p.errors[1].token.value = "Equal"

\* C17 witness: `( a ) + 1 = 2 ; print 1 ;` was parsed: one diagnostic, and
\* both statements.
C17_Witness ==
    /\ parser.pc = "done"
    /\ parser.input.kind = "target"
    /\ parser.input.source =
           Join(<<(<<"(">>), <<"a">>, <<")">>, <<"+">>, <<"1">>, <<"=">>, Two, <<";">>,
                  kw_print, <<"1">>, <<";">> >>)
    /\ Len(parser.p.errors) = 1
    /\ parser.statements =
           <<ExprStmt(Binary(Variable(<<"a">>), "Plus", Number(F64(1)))),
             PrintStmt(Number(F64(1)))>>

\* C19: parsing never aborts: whatever the source, once the tokens are there
\* no index or slice of Parser::parse is out of range (no panic), the token
\* cursor stays between 0 and the index of Eof, and parse returns with the
\* cursor at Eof.
C19_ParseNeverAborts ==
    (parser.pc # "idle" /\ parser.p.tokens # <<>>) =>
        /\ parser.pc # "panic"
        /\ ~parser.p.panicked
        /\ parser.p.cursor \in 0..(Len(parser.p.tokens) - 1)
        /\ parser.pc = "done" => is_at_end(parser.p)

=============================================================================
